---------------------------- MODULE Spec2Model ----------------------------
(***************************************************************************)
(* A model of the PDF page extractor of src/App.tsx: the page-selection    *)
(* parser parsePageString and the App component's state with its handlers  *)
(* handleFileSelect, handleExtract and resetState.                         *)
(*                                                                         *)
(* Strings are sequences of one-character strings.  The number a string    *)
(* is read as is named by its decimal, in units of 1/Scale; NaN is a       *)
(* separate value.  The numbers the parser computes with are IEEE 754      *)
(* doubles, held bit for bit as a whole part and a 52-bit fraction.        *)
(***************************************************************************)
EXTENDS Integers, Sequences, FiniteSets, TLC

\* ------------------------------------------------------------------ bounds

\* The longest input string given to parsePageString (all strings up to it).
MaxLen == 4
\* The largest page count of a document, and the largest max given to the parser.
MaxPage == 2
\* The most operations the model lets be in flight at once.
MaxOps == 2

\* ----------------------------------------------------------------- strings

Digits == <<"0", "1", "2", "3", "4", "5", "6", "7", "8", "9">>
DigitChars == {Digits[i] : i \in 1..Len(Digits)}

\* The characters the checked inputs are made of: the digits up to MaxPage,
\* the separators, white space, the decimal point, and "a" for any character
\* that is no part of a number.  No input holds a sign, an exponent or a radix
\* prefix, which Number would also read.
Alphabet == {Digits[k] : k \in 1..(MaxPage + 1)} \cup {",", "-", " ", ".", "a"}

RECURSIVE Pow10(_)
Pow10(n) == IF n = 0 THEN 1 ELSE 10 * Pow10(n - 1)

\* One, in the unit the decimal a string denotes is held in.  A string of up to
\* MaxLen characters holds at most MaxLen - 1 fraction digits, so every decimal
\* read from one is held exactly.
Scale == Pow10(MaxLen - 1)

\* String.prototype.includes for a one-character needle.
Includes(s, c) == \E i \in 1..Len(s) : s[i] = c

\* The first position of c in s, or 0.
IndexOf(s, c) ==
    IF Includes(s, c) THEN CHOOSE i \in 1..Len(s) : s[i] = c /\ \A j \in 1..(i - 1) : s[j] # c
    ELSE 0

\* String.prototype.split for a one-character separator.
RECURSIVE Split(_, _)
Split(s, c) ==
    LET k == IndexOf(s, c) IN
    IF k = 0 THEN <<s>>
    ELSE <<SubSeq(s, 1, k - 1)>> \o Split(SubSeq(s, k + 1, Len(s)), c)

\* String.prototype.trim.
RECURSIVE Trim(_)
Trim(s) ==
    IF s = <<>> THEN s
    ELSE IF Head(s) = " " THEN Trim(Tail(s))
    ELSE IF s[Len(s)] = " " THEN Trim(SubSeq(s, 1, Len(s) - 1))
    ELSE s

\* ----------------------------------------------------------------- numbers

NaN == [nan |-> TRUE, v |-> 0]
Num(v) == [nan |-> FALSE, v |-> v]
isNaN(x) == x.nan

DigitValue(c) == (CHOOSE i \in 1..Len(Digits) : Digits[i] = c) - 1

RECURSIVE DigitsValue(_)
DigitsValue(s) ==
    IF s = <<>> THEN 0
    ELSE 10 * DigitsValue(SubSeq(s, 1, Len(s) - 1)) + DigitValue(s[Len(s)])

\* Number(s) for a string: white space is stripped, the empty string is 0, an
\* unsigned decimal literal (digits, at most one point, at least one digit) is
\* its value, and anything else is NaN.  Num(v) stands for the double nearest
\* to the decimal v / Scale.  Rounding to the nearest double keeps the order of
\* decimals and leaves whole numbers as they are, so the comparisons of two
\* such numbers, and of one with 1 or with max, are those of the decimals.
StringToNumber(s) ==
    LET t == Trim(s)
        dot == IndexOf(t, ".")
        ip == IF dot = 0 THEN t ELSE SubSeq(t, 1, dot - 1)
        fp == IF dot = 0 THEN <<>> ELSE SubSeq(t, dot + 1, Len(t))
    IN  IF t = <<>> THEN Num(0)
        ELSE IF /\ \A i \in 1..Len(ip) : ip[i] \in DigitChars
                /\ \A i \in 1..Len(fp) : fp[i] \in DigitChars
                /\ Len(ip) + Len(fp) > 0
             THEN Num(DigitsValue(ip) * Scale + DigitsValue(fp) * (Scale \div Pow10(Len(fp))))
             ELSE NaN

\* ----------------------------------------------------------------- doubles

\* The arithmetic of the loop (i++, i - 1, i <= end) is that of IEEE 754
\* doubles.  A double that is 1 or more is a multiple of 2^-52; it is held as
\* its whole part w and its fraction (hi * 2^26 + lo) / 2^52, hi and lo below
\* 2^26.  A double in [2^j, 2^(j+1)) is a multiple of 2^(j-52).  Whole parts
\* are below 2^31.
RECURSIVE Pow2(_)
Pow2(n) == IF n = 0 THEN 1 ELSE 2 * Pow2(n - 1)

Limb == Pow2(26)
Chunk == Pow2(13)

Double(w, hi, lo) == [w |-> w, hi |-> hi, lo |-> lo]

\* The j with 2^j <= w < 2^(j+1), for w >= 1.
RECURSIVE Log2Floor(_)
Log2Floor(w) == IF w < 2 THEN 0 ELSE 1 + Log2Floor(w \div 2)

Carry(w, hi, lo) ==
    LET lo2 == IF lo >= Limb THEN lo - Limb ELSE lo
        hi1 == IF lo >= Limb THEN hi + 1 ELSE hi
        hi2 == IF hi1 >= Limb THEN hi1 - Limb ELSE hi1
        w2 == IF hi1 >= Limb THEN w + 1 ELSE w
    IN  Double(w2, hi2, lo2)

\* Round to nearest, ties to even: the fraction (hi, lo), followed below its
\* last bit by a rest that is nothing ("none"), less than half a bit
\* ("below"), half a bit ("half") or more ("above"), to a multiple of 2^j.
\* Below j = 26 the bits dropped are the lowest j of lo; at j = 26 they are
\* all of lo and the last bit kept is the lowest of hi; above, they are all of
\* lo and the lowest j - 26 of hi.
RoundTo(w, hi, lo, j, rest) ==
    IF j = 0
    THEN LET up == rest = "above" \/ (rest = "half" /\ lo % 2 = 1)
         IN  Carry(w, hi, lo + (IF up THEN 1 ELSE 0))
    ELSE IF j < 26
    THEN LET low == lo % Pow2(j)
             half == Pow2(j - 1)
             up == \/ low > half
                   \/ low = half /\ rest # "none"
                   \/ low = half /\ rest = "none" /\ (lo \div Pow2(j)) % 2 = 1
         IN  Carry(w, hi, (lo - low) + (IF up THEN Pow2(j) ELSE 0))
    ELSE IF j = 26
    THEN LET half == Pow2(25)
             up == \/ lo > half
                   \/ lo = half /\ rest # "none"
                   \/ lo = half /\ rest = "none" /\ hi % 2 = 1
         IN  Carry(w, hi + (IF up THEN 1 ELSE 0), 0)
    ELSE LET k == j - 26
             low == hi % Pow2(k)
             half == Pow2(k - 1)
             more == lo > 0 \/ rest # "none"
             up == \/ low > half
                   \/ low = half /\ more
                   \/ low = half /\ ~more /\ (hi \div Pow2(k)) % 2 = 1
         IN  Carry(w, (hi - low) + (IF up THEN Pow2(k) ELSE 0), 0)

\* The double nearest to the decimal v / Scale, for v / Scale >= 1: the first
\* 52 bits of the fraction by long division, 13 bits at a time, then rounded
\* to the 53 bits a double holds.
ToDouble(v) ==
    LET w == v \div Scale
        r0 == v % Scale
        c1 == (r0 * Chunk) \div Scale
        r1 == (r0 * Chunk) % Scale
        c2 == (r1 * Chunk) \div Scale
        r2 == (r1 * Chunk) % Scale
        c3 == (r2 * Chunk) \div Scale
        r3 == (r2 * Chunk) % Scale
        c4 == (r3 * Chunk) \div Scale
        r4 == (r3 * Chunk) % Scale
        rest == IF r4 = 0 THEN "none"
                ELSE IF 2 * r4 = Scale THEN "half"
                ELSE IF 2 * r4 > Scale THEN "above"
                ELSE "below"
    IN  RoundTo(w, c1 * Chunk + c2, c3 * Chunk + c4, Log2Floor(w), rest)

\* i + 1 (i++), for i >= 1: the sum is rounded when it reaches a power of two.
PlusOne(x) == RoundTo(x.w + 1, x.hi, x.lo, Log2Floor(x.w + 1), "none")

\* i - 1, for i >= 1: exact.
MinusOne(x) == Double(x.w - 1, x.hi, x.lo)

\* x < y and x <= y.
Less(x, y) ==
    \/ x.w < y.w
    \/ x.w = y.w /\ x.hi < y.hi
    \/ x.w = y.w /\ x.hi = y.hi /\ x.lo < y.lo
LessOrEqual(x, y) == x = y \/ Less(x, y)

\* ---------------------------------------------------------------- messages

\* A message: a text in which %part% and %max% stand for the two values.
Msg(text, part, max) == [text |-> text, part |-> part, max |-> max]
Fixed(text) == Msg(text, <<>>, 0)

NULL == [text |-> "null"]

InvalidRange(part, max) ==
    Msg("Invalid range: \"%part%\". Pages must be between 1 and %max%.", part, max)
InvalidPage(part, max) ==
    Msg("Invalid page: \"%part%\". Pages must be between 1 and %max%.", part, max)
EnterValidPages == Fixed("Please enter valid page numbers.")
NoPagesSelected == Fixed("No pages selected. Please enter page numbers to extract.")

\* ----------------------------------------------------------- parsePageString

Returned(pages) == [ok |-> TRUE, pages |-> pages, error |-> NULL]
Thrown(message) == [ok |-> FALSE, pages |-> <<>>, error |-> message]

\* Set.prototype.add on a set held in insertion order.
SetAdd(pages, x) ==
    IF \E i \in 1..Len(pages) : pages[i] = x THEN pages ELSE Append(pages, x)

\* The loop with i < end for its test: the last page of a range is left out.
RECURSIVE RangeLoopExclusiveFrom(_, _, _)
RangeLoopExclusiveFrom(pages, i, end) ==
    IF Less(i, end) THEN RangeLoopExclusiveFrom(SetAdd(pages, MinusOne(i)), PlusOne(i), end)
    ELSE pages
RangeLoopExclusive(pages, start, end) ==
    RangeLoopExclusiveFrom(pages, ToDouble(start), ToDouble(end))

\* The loop from its variable's value i on: i <= end; i++; pages.add(i - 1).
RECURSIVE RangeLoopFrom(_, _, _)
RangeLoopFrom(pages, i, end) ==
    IF LessOrEqual(i, end) THEN RangeLoopFrom(SetAdd(pages, MinusOne(i)), PlusOne(i), end)
    ELSE pages

\* for (let i = start; i <= end; i++) pages.add(i - 1), for the numbers
\* Num(start) and Num(end), 1 <= start <= end.
RangeLoop(pages, start, end) == RangeLoopFrom(pages, ToDouble(start), ToDouble(end))

\* Array.from(pages) returned as it is, in insertion order.
Unsorted(a) == a
\* Array.prototype.sort((a, b) => a - b) of an array without duplicates.
RECURSIVE SortAscending(_)
SortAscending(a) ==
    IF a = <<>> THEN <<>>
    ELSE LET m == CHOOSE i \in 1..Len(a) : \A j \in 1..Len(a) : LessOrEqual(a[i], a[j])
         IN  <<a[m]>> \o SortAscending(SubSeq(a, 1, m - 1) \o SubSeq(a, m + 1, Len(a)))

\* One pass of the loop over parts, from parts[i] on, with the pages added so far.
RECURSIVE ParseParts(_, _, _, _)
ParseParts(parts, i, pages, max) ==
    IF i > Len(parts) THEN Returned(pages)
    ELSE LET part == parts[i] IN
         IF Includes(part, "-")
         THEN LET nums == Split(part, "-")
                  start == StringToNumber(nums[1])
                  end == StringToNumber(nums[2])
              IN  IF \/ isNaN(start) \/ isNaN(end) \/ start.v > end.v
                     \/ start.v < 1 * Scale \/ end.v > max * Scale
                  THEN Thrown(InvalidRange(part, max))
                  ELSE ParseParts(parts, i + 1, RangeLoop(pages, start.v, end.v), max)
         ELSE LET page == StringToNumber(part)
              IN  IF isNaN(page) \/ page.v < 1 * Scale \/ page.v > max * Scale
                  THEN Thrown(InvalidPage(part, max))
                  ELSE ParseParts(parts, i + 1, SetAdd(pages, MinusOne(ToDouble(page.v))), max)

parsePageString(input, max) ==
    LET parts == [i \in 1..Len(Split(input, ",")) |-> Trim(Split(input, ",")[i])]
        looped == ParseParts(parts, 1, <<>>, max)
    IN  IF ~looped.ok THEN looped
        ELSE IF Len(looped.pages) = 0 /\ Len(input) > 0 THEN Thrown(EnterValidPages)
        ELSE IF Len(looped.pages) = 0 THEN Thrown(NoPagesSelected)
        ELSE Returned(SortAscending(looped.pages))

\* ------------------------------------------------------------- collaborators

\* A File: its name and the page count of the document its bytes hold.
Files == [name : {"doc.pdf"}, pages : 0..MaxPage]

Upper == <<"A", "B", "C", "D", "E", "F", "G", "H", "I", "J", "K", "L", "M",
           "N", "O", "P", "Q", "R", "S", "T", "U", "V", "W", "X", "Y", "Z">>
Lower == <<"a", "b", "c", "d", "e", "f", "g", "h", "i", "j", "k", "l", "m",
           "n", "o", "p", "q", "r", "s", "t", "u", "v", "w", "x", "y", "z">>

\* String.prototype.toLowerCase.
toLowerCase(s) ==
    [i \in 1..Len(s) |->
        IF \E k \in 1..Len(Upper) : Upper[k] = s[i]
        THEN Lower[CHOOSE k \in 1..Len(Upper) : Upper[k] = s[i]]
        ELSE s[i]]

\* String.prototype.includes for a string needle.
IncludesString(s, sub) ==
    \E i \in 0..(Len(s) - Len(sub)) : SubSeq(s, i + 1, i + Len(sub)) = sub

Encrypted == <<"e", "n", "c", "r", "y", "p", "t", "e", "d">>

\* The messages of the errors a collaborator rejects with.
CollabMessages ==
    { <<>>,
      <<"I", "s", " ", "E", "n", "c", "r", "y", "p", "t", "e", "d">>,
      <<"b", "a", "d", " ", "x", "r", "e", "f">> }
\* An error object: its constructor's name and its message.
ErrorObjects == [name : {"Error", "PDFInvalidPasswordError"}, message : CollabMessages]
\* undefined and null: reading a property of either throws a TypeError.
Nullish == {[value |-> "undefined"], [value |-> "null"]}
\* What a rejected collaborator promise carries, the e of a catch block.
CollabErrors == ErrorObjects \cup Nullish

NotReady == Fixed("PDF libraries are not ready. Please wait a moment and try again.")
CouldNotRead ==
    Fixed("Could not read the PDF file. Please ensure it is a valid, uncorrupted file.")
PasswordProtected ==
    Fixed("This PDF is password-protected. This application cannot process encrypted or password-protected files.")
Unexpected == Fixed("An unexpected error occurred during PDF processing.")
FailedCreationLibrary == Fixed("Failed to load PDF creation library. Please refresh.")
FailedPreviewLibrary == Fixed("Failed to load PDF preview library. Please refresh.")

\* A message that is the given string itself.
Verbatim(m) == Msg("%part%", m, 0)

\* The bytes newPdfDoc.save() gives: the pages of the source, by index, in order.
SavedBytes(f, indices) == [source |-> f, pages |-> indices]
\* URL.createObjectURL(new Blob([bytes])).
ObjectURL(bytes) == [blob |-> bytes]

\* The page-selection strings typed into the input.
PageInputs ==
    { <<>>, <<" ">>, <<"1">>, <<"2">>, <<"1", "-", "2">>, <<"2", ",", "1">>,
      <<"1", ".", "5">>, <<"a">>, <<"0">>, <<"1", ",", ",", "2">>,
      <<"1", "-", "2", "-", "a">> }

\* --------------------------------------------------------------------- state

VARIABLES
    file,             \* useState<File | null>
    totalPages,       \* useState<number>
    pageInput,        \* useState<string>
    isProcessing,     \* useState<boolean>
    error,            \* useState<string | null>
    outputPdfUrl,     \* useState<string | null>
    outputPdfBytes,   \* useState<Uint8Array | null>
    librariesReady,   \* useState<boolean>
    pdfLibLoaded,     \* the effect's local pdfLibLoaded
    pdfJsLoaded,      \* the effect's local pdfJsLoaded
    scripts,          \* the script elements whose onload / onerror is still to come
    ops,              \* the handler calls suspended at an await, oldest first
    lastEvent,        \* the handler or callback that ran last
    input,            \* parsePageString's argument input
    max,              \* parsePageString's argument max
    parsed            \* what parsePageString(input, max) gave

appVars == <<file, totalPages, pageInput, isProcessing, error, outputPdfUrl,
             outputPdfBytes, librariesReady, pdfLibLoaded, pdfJsLoaded, scripts, ops>>
parseVars == <<input, max, parsed>>
vars == <<appVars, lastEvent, parseVars>>

NotParsed == [ok |-> FALSE, pages |-> <<>>, error |-> NULL]

\* The state after the first render and its effect: a library that is already
\* defined needs no script.
AppInit ==
    /\ file = NULL
    /\ totalPages = 0
    /\ pageInput = <<>>
    /\ isProcessing = FALSE
    /\ error = NULL
    /\ outputPdfUrl = NULL
    /\ outputPdfBytes = NULL
    /\ pdfLibLoaded \in BOOLEAN
    /\ pdfJsLoaded \in BOOLEAN
    /\ librariesReady = (pdfLibLoaded /\ pdfJsLoaded)
    /\ scripts = IF pdfLibLoaded /\ pdfJsLoaded THEN {}
                 ELSE (IF pdfLibLoaded THEN {} ELSE {"pdfLib"})
                      \cup (IF pdfJsLoaded THEN {} ELSE {"pdfJs"})
    /\ ops = <<>>
    /\ lastEvent = "init"

Init ==
    /\ AppInit
    /\ input = <<>>
    /\ max = 0
    /\ parsed = NotParsed

\* ------------------------------------------------------------ library loading

\* pdfLibScript.onload / pdfJsScript.onload, with checkAndSetReady.
ScriptOnLoad(s) ==
    /\ s \in scripts
    /\ scripts' = scripts \ {s}
    /\ pdfLibLoaded' = (pdfLibLoaded \/ s = "pdfLib")
    /\ pdfJsLoaded' = (pdfJsLoaded \/ s = "pdfJs")
    /\ librariesReady' = (librariesReady \/ (pdfLibLoaded' /\ pdfJsLoaded'))
    /\ lastEvent' = "scriptOnLoad"
    /\ UNCHANGED <<file, totalPages, pageInput, isProcessing, error, outputPdfUrl,
                   outputPdfBytes, ops, parseVars>>

\* pdfLibScript.onerror / pdfJsScript.onerror.
ScriptOnError(s) ==
    /\ s \in scripts
    /\ scripts' = scripts \ {s}
    /\ error' = IF s = "pdfLib" THEN FailedCreationLibrary ELSE FailedPreviewLibrary
    /\ lastEvent' = "scriptOnError"
    /\ UNCHANGED <<file, totalPages, pageInput, isProcessing, outputPdfUrl, outputPdfBytes,
                   librariesReady, pdfLibLoaded, pdfJsLoaded, ops, parseVars>>

\* ------------------------------------------------------------------ handlers

\* A handler runs from its call, or from the settling of the promise it awaits,
\* to its next await or its end in one step: React applies the state updates
\* of that run together and renders before the next event, so a handler reads
\* the state the last step left.  handleFileSelect and handleExtract test
\* isProcessing themselves and may be called at any time; the input's onChange
\* and resetState test nothing and are taken only while their control is
\* rendered and enabled.  The object URL that resetState revokes is not kept.

RemoveAt(q, i) == SubSeq(q, 1, i - 1) \o SubSeq(q, i + 1, Len(q))

Suspended(op, step, f, indices) ==
    [op |-> op, step |-> step, file |-> f, pageIndices |-> indices]

\* handleFileSelect up to its first await: resetState(), then the new file.
FileSelectAccepted(f) ==
    /\ Len(ops) < MaxOps
    /\ file' = f
    /\ totalPages' = 0
    /\ pageInput' = <<>>
    /\ isProcessing' = TRUE
    /\ error' = NULL
    /\ outputPdfUrl' = NULL
    /\ outputPdfBytes' = NULL
    /\ ops' = Append(ops, Suspended("handleFileSelect", "arrayBuffer", f, <<>>))
    /\ UNCHANGED <<librariesReady, pdfLibLoaded, pdfJsLoaded, scripts>>

\* handleFileSelect without its "if (isProcessing) return".
HandleFileSelectUnguarded(f) ==
    /\ IF ~librariesReady
       THEN /\ error' = NotReady
            /\ UNCHANGED <<file, totalPages, pageInput, isProcessing, outputPdfUrl,
                           outputPdfBytes, librariesReady, pdfLibLoaded, pdfJsLoaded,
                           scripts, ops>>
       ELSE FileSelectAccepted(f)
    /\ lastEvent' = "handleFileSelect"
    /\ UNCHANGED parseVars

\* A call of handleFileSelect(selectedFile).
HandleFileSelect(f) ==
    /\ IF isProcessing THEN UNCHANGED appVars
       ELSE IF ~librariesReady
       THEN /\ error' = NotReady
            /\ UNCHANGED <<file, totalPages, pageInput, isProcessing, outputPdfUrl,
                           outputPdfBytes, librariesReady, pdfLibLoaded, pdfJsLoaded,
                           scripts, ops>>
       ELSE FileSelectAccepted(f)
    /\ lastEvent' = "handleFileSelect"
    /\ UNCHANGED parseVars

\* The error handleFileSelect's catch block shows for a caught error object e.
userFriendlyError(e) ==
    IF \/ e.name = "PDFInvalidPasswordError"
       \/ (e.message # <<>> /\ IncludesString(toLowerCase(e.message), Encrypted))
    THEN PasswordProtected
    ELSE CouldNotRead

\* handleFileSelect resumed by its awaited promise resolving.
FileSelectResolve(i) ==
    /\ i \in 1..Len(ops)
    /\ ops[i].op = "handleFileSelect"
    /\ IF ops[i].step = "arrayBuffer"
       THEN /\ ops' = [ops EXCEPT ![i].step = "load"]
            /\ UNCHANGED <<totalPages, isProcessing>>
       ELSE /\ totalPages' = ops[i].file.pages
            /\ isProcessing' = FALSE
            /\ ops' = RemoveAt(ops, i)
    /\ lastEvent' = "fileSelectResolve"
    /\ UNCHANGED <<file, pageInput, error, outputPdfUrl, outputPdfBytes, librariesReady,
                   pdfLibLoaded, pdfJsLoaded, scripts, parseVars>>

\* handleFileSelect resumed by its awaited promise rejecting with e.  For an
\* e that is undefined or null the catch block throws at e.constructor, before
\* its setError and setFile(null); the finally block runs in either case.
FileSelectReject(i, e) ==
    /\ i \in 1..Len(ops)
    /\ ops[i].op = "handleFileSelect"
    /\ IF e \in Nullish
       THEN UNCHANGED <<error, file>>
       ELSE /\ error' = userFriendlyError(e)
            /\ file' = NULL
    /\ isProcessing' = FALSE
    /\ ops' = RemoveAt(ops, i)
    /\ lastEvent' = "fileSelectReject"
    /\ UNCHANGED <<totalPages, pageInput, outputPdfUrl, outputPdfBytes, librariesReady,
                   pdfLibLoaded, pdfJsLoaded, scripts, parseVars>>

\* The input's onChange; the input is rendered once a file is selected and is
\* disabled while isProcessing.
SetPageInput(s) ==
    /\ librariesReady
    /\ file # NULL
    /\ ~isProcessing
    /\ pageInput' = s
    /\ lastEvent' = "setPageInput"
    /\ UNCHANGED <<file, totalPages, isProcessing, error, outputPdfUrl, outputPdfBytes,
                   librariesReady, pdfLibLoaded, pdfJsLoaded, scripts, ops, parseVars>>

\* The message handleExtract's catch block shows for a caught error object e.
extractError(e) == IF e.message # <<>> THEN Verbatim(e.message) ELSE Unexpected

\* handleExtract past its guard, up to its first await or to the parser's throw.
ExtractAccepted ==
    LET pageIndices == parsePageString(pageInput, totalPages) IN
    /\ outputPdfUrl' = NULL
    /\ outputPdfBytes' = NULL
    /\ IF pageIndices.ok
       THEN /\ Len(ops) < MaxOps
            /\ isProcessing' = TRUE
            /\ error' = NULL
            /\ ops' = Append(ops, Suspended("handleExtract", "arrayBuffer", file,
                                            pageIndices.pages))
       ELSE /\ isProcessing' = FALSE
            /\ error' = pageIndices.error
            /\ ops' = ops
    /\ UNCHANGED <<file, totalPages, pageInput, librariesReady, pdfLibLoaded, pdfJsLoaded,
                   scripts>>

\* A call of handleExtract().
HandleExtract ==
    /\ IF file = NULL \/ isProcessing THEN UNCHANGED appVars ELSE ExtractAccepted
    /\ lastEvent' = "handleExtract"
    /\ UNCHANGED parseVars

ExtractSteps == <<"arrayBuffer", "load", "create", "copyPages", "save">>
NextStep(step) == ExtractSteps[(CHOOSE k \in 1..Len(ExtractSteps) : ExtractSteps[k] = step) + 1]

\* The indices copyPages can copy: whole numbers that name a page of the source.
Copyable(op) ==
    \A k \in 1..Len(op.pageIndices) :
        /\ op.pageIndices[k].hi = 0
        /\ op.pageIndices[k].lo = 0
        /\ 0 <= op.pageIndices[k].w
        /\ op.pageIndices[k].w < op.file.pages

\* handleExtract resumed by its awaited promise resolving.
ExtractResolve(i) ==
    /\ i \in 1..Len(ops)
    /\ ops[i].op = "handleExtract"
    /\ ops[i].step = "copyPages" => Copyable(ops[i])
    /\ IF ops[i].step # "save"
       THEN /\ ops' = [ops EXCEPT ![i].step = NextStep(ops[i].step)]
            /\ UNCHANGED <<isProcessing, outputPdfUrl, outputPdfBytes>>
       ELSE /\ outputPdfBytes' = SavedBytes(ops[i].file, ops[i].pageIndices)
            /\ outputPdfUrl' = ObjectURL(outputPdfBytes')
            /\ isProcessing' = FALSE
            /\ ops' = RemoveAt(ops, i)
    /\ lastEvent' = "extractResolve"
    /\ UNCHANGED <<file, totalPages, pageInput, error, librariesReady, pdfLibLoaded,
                   pdfJsLoaded, scripts, parseVars>>

\* handleExtract resumed by its awaited promise rejecting with e.  For an e
\* that is undefined or null the catch block throws at e.message, before its
\* setError, setOutputPdfUrl(null) and setOutputPdfBytes(null); the finally
\* block runs in either case.
ExtractReject(i, e) ==
    /\ i \in 1..Len(ops)
    /\ ops[i].op = "handleExtract"
    /\ IF e \in Nullish
       THEN UNCHANGED <<error, outputPdfUrl, outputPdfBytes>>
       ELSE /\ error' = extractError(e)
            /\ outputPdfUrl' = NULL
            /\ outputPdfBytes' = NULL
    /\ isProcessing' = FALSE
    /\ ops' = RemoveAt(ops, i)
    /\ lastEvent' = "extractReject"
    /\ UNCHANGED <<file, totalPages, pageInput, librariesReady, pdfLibLoaded, pdfJsLoaded,
                   scripts, parseVars>>

\* The Start Over button's onClick; the button is rendered while outputPdfUrl is set.
ResetState ==
    /\ outputPdfUrl # NULL
    /\ file' = NULL
    /\ totalPages' = 0
    /\ pageInput' = <<>>
    /\ isProcessing' = FALSE
    /\ error' = NULL
    /\ outputPdfUrl' = NULL
    /\ outputPdfBytes' = NULL
    /\ lastEvent' = "resetState"
    /\ UNCHANGED <<librariesReady, pdfLibLoaded, pdfJsLoaded, scripts, ops, parseVars>>

Next ==
    \/ \E s \in {"pdfLib", "pdfJs"} : ScriptOnLoad(s)
    \/ \E s \in {"pdfLib", "pdfJs"} : ScriptOnError(s)
    \/ \E f \in Files : HandleFileSelect(f)
    \/ \E i \in 1..MaxOps : FileSelectResolve(i)
    \/ \E i \in 1..MaxOps, e \in CollabErrors : FileSelectReject(i, e)
    \/ \E s \in PageInputs : SetPageInput(s)
    \/ HandleExtract
    \/ \E i \in 1..MaxOps : ExtractResolve(i)
    \/ \E i \in 1..MaxOps, e \in CollabErrors : ExtractReject(i, e)
    \/ ResetState

Spec == Init /\ [][Next]_vars

\* Every pending collaborator promise settles.
Settle ==
    \/ \E i \in 1..MaxOps : FileSelectResolve(i)
    \/ \E i \in 1..MaxOps, e \in CollabErrors : FileSelectReject(i, e)
    \/ \E i \in 1..MaxOps : ExtractResolve(i)
    \/ \E i \in 1..MaxOps, e \in CollabErrors : ExtractReject(i, e)

FairSpec == Spec /\ WF_vars(Settle)

\* --------------------------------------------------- the parser on its own

RECURSIVE Strings(_)
Strings(n) ==
    IF n = 0 THEN {<<>>}
    ELSE LET shorter == Strings(n - 1)
         IN  shorter \cup {Append(t, c) : t \in {u \in shorter : Len(u) = n - 1}, c \in Alphabet}

\* Longer inputs than the bound allows all of: tokens of three hyphen-separated
\* parts, and empty tokens between two pages.
Examples ==
    { <<"1", "-", "2", "-", "2">>, <<"1", "-", "2", "-", "a">>,
      <<"1", ",", ",", "1", "-", "2">>, <<"2", ",", "1", ",", "1", "-", "2">> }

Inputs == Strings(MaxLen) \cup Examples

ParseInit ==
    /\ AppInit
    /\ pdfLibLoaded
    /\ pdfJsLoaded
    /\ input \in Inputs
    /\ max \in 0..MaxPage
    /\ parsed = NotParsed

\* A call of parsePageString(input, max).
Parse ==
    /\ parsed = NotParsed
    /\ parsed' = parsePageString(input, max)
    /\ UNCHANGED <<appVars, lastEvent, input, max>>

ParseNext == Parse

ParseSpec == ParseInit /\ [][ParseNext]_vars

\* ------------------------------------------------ properties of the parser

\* Number.prototype.toString of a natural number.
RECURSIVE Dec(_)
Dec(n) == IF n < 10 THEN <<Digits[n + 1]>> ELSE Dec(n \div 10) \o <<Digits[(n % 10) + 1]>>

\* The zero-based index k as the parser's result holds it.
Index(k) == Double(k, 0, 0)

\* The whole number k as a decimal.
Whole(k) == k * Scale

\* Tokens put together again with commas between them.
RECURSIVE Join(_)
Join(parts) ==
    IF parts = <<>> THEN <<>>
    ELSE IF Len(parts) = 1 THEN parts[1]
    ELSE parts[1] \o <<",">> \o Join(Tail(parts))

\* The comma-separated tokens of an input, trimmed.
Tokens(s) == [i \in 1..Len(Split(s, ",")) |-> Trim(Split(s, ",")[i])]

RangeToken(a, b) == Dec(a) \o <<"-">> \o Dec(b)

Occurrences(pages, x) == Cardinality({k \in 1..Len(pages) : pages[k] = x})

Reorderings(n) == {f \in [1..n -> 1..n] : \A i, j \in 1..n : f[i] = f[j] => i = j}

\* C1: for 1 <= a <= b <= max, parsePageString("a-b", max) succeeds and returns
\* the zero-based indices a-1, ..., b-1: every one of them and no other.
C1_RangeReturnsExactIndices ==
    \A a, b \in 1..MaxPage :
        (parsed # NotParsed /\ a <= b /\ b <= max /\ input = RangeToken(a, b))
        => /\ parsed.ok
           /\ Len(parsed.pages) = b - a + 1
           /\ {parsed.pages[k] : k \in 1..Len(parsed.pages)} = {Index(i - 1) : i \in a..b}

\* The range "1-2" of more than one page has been parsed.
C1_Witness == parsed.ok /\ input = RangeToken(1, 2) /\ max = 2

\* C2: a successful result is strictly ascending, is the same for every
\* reordering of the tokens and for every repetition of a token, and holds p-1
\* exactly once for each page p that a page token or a range token names.
C2_AscendingAndOrderIndependent ==
    parsed.ok =>
        LET toks == Split(input, ",")
            n == Len(toks)
        IN  /\ \A i, j \in 1..Len(parsed.pages) : i < j => Less(parsed.pages[i], parsed.pages[j])
            /\ \A f \in Reorderings(n) :
                   parsePageString(Join([i \in 1..n |-> toks[f[i]]]), max) = parsed
            /\ \A i \in 1..n : parsePageString(input \o <<",">> \o toks[i], max) = parsed
            /\ \A i \in 1..n, p \in 1..MaxPage :
                   Trim(toks[i]) = Dec(p) => Occurrences(parsed.pages, Index(p - 1)) = 1
            /\ \A i \in 1..n, a, b, p \in 1..MaxPage :
                   (Trim(toks[i]) = RangeToken(a, b) /\ a <= p /\ p <= b)
                   => Occurrences(parsed.pages, Index(p - 1)) = 1

\* "2,1,1-2" has been parsed: tokens out of order, a repeated page and a range
\* that overlaps both pages.
C2_Witness ==
    /\ input = <<"2", ",", "1", ",", "1", "-", "2">>
    /\ parsed.ok
    /\ parsed.pages = <<Index(0), Index(1)>>

\* A part of a token is numeric when Number reads it as a number (as it does
\* the empty string, which is 0).
IsNumeric(part) == ~isNaN(StringToNumber(part))

\* The tokens C3 lists as to be rejected.
ListedAsInvalid(tok, mx) ==
    IF Includes(tok, "-")
    THEN LET ps == Split(tok, "-")
             a == StringToNumber(ps[1])
             b == StringToNumber(ps[2])
         IN  \/ \E k \in 1..Len(ps) : ~IsNumeric(ps[k])
             \/ a.v > b.v \/ a.v < Whole(1) \/ b.v > Whole(mx)
    ELSE LET p == StringToNumber(tok)
         IN  ~IsNumeric(tok) \/ p.v < Whole(1) \/ p.v > Whole(mx)

\* C3: an input with a token that is a page out of 1..max, a range a-b with
\* a > b, a < 1 or b > max, or a token with a non-numeric part is rejected with
\* the error of the first such token, naming it and max; a range a-a with
\* 1 <= a <= max is accepted.
C3_InvalidTokensRejected ==
    parsed # NotParsed =>
        LET toks == Tokens(input)
            bad == {i \in 1..Len(toks) : ListedAsInvalid(toks[i], max)}
            first == CHOOSE i \in bad : \A j \in bad : i <= j
        IN  /\ bad # {} =>
                /\ ~parsed.ok
                /\ parsed.error \in {InvalidRange(toks[first], max), InvalidPage(toks[first], max)}
            /\ \A a \in 1..MaxPage : (a <= max /\ input = RangeToken(a, a)) => parsed.ok

\* C4: an empty or white-space-only input fails with the "No pages selected"
\* error.
C4_EmptyInputNoPagesSelected ==
    (parsed # NotParsed /\ Trim(input) = <<>>) => (~parsed.ok /\ parsed.error = NoPagesSelected)

\* C5: empty tokens are ignored when a valid token remains: the input gives
\* what it gives with its empty tokens left out.
C5_EmptyTokensIgnored ==
    parsed # NotParsed =>
        LET toks == Tokens(input)
            kept == SelectSeq(toks, LAMBDA t : t # <<>>)
            without == parsePageString(Join(kept), max)
        IN  (kept # <<>> /\ Len(kept) < Len(toks) /\ without.ok) => parsed = without

\* C6: an input with a token of more than two hyphen-separated parts is
\* rejected, and with the "Invalid range" error of that token when it is the
\* only token.
C6_ExtraHyphenPartsRejected ==
    parsed # NotParsed =>
        LET toks == Tokens(input) IN
        /\ (\E i \in 1..Len(toks) : Len(Split(toks[i], "-")) > 2) => ~parsed.ok
        /\ (Len(toks) = 1 /\ Len(Split(toks[1], "-")) > 2)
           => parsed.error = InvalidRange(toks[1], max)

\* ---------------------------------------------- properties of the handlers

InFlight(name) == \E i \in 1..Len(ops) : ops[i].op = name

HasOutput == outputPdfUrl # NULL \/ outputPdfBytes # NULL
Succeeded == outputPdfUrl # NULL /\ outputPdfBytes # NULL /\ error = NULL
Failed == error # NULL /\ outputPdfUrl = NULL /\ outputPdfBytes = NULL

\* C7: at most one operation is in flight at any time, and a call of
\* handleFileSelect or handleExtract made while one is in flight changes no
\* state and starts no collaborator call.
C7_SingleFlight ==
    /\ [](Len(ops) <= 1)
    /\ [][(ops # <<>> /\ lastEvent' \in {"handleFileSelect", "handleExtract"})
          => UNCHANGED appVars]_vars

\* handleExtract has been called while a document load was in flight.
C7_Witness ==
    /\ InFlight("handleFileSelect")
    /\ isProcessing
    /\ lastEvent = "handleExtract"

\* C8: an error shown after a collaborator failure during an extraction is
\* one of the fixed classified messages, never the collaborator's own message.
C8_ExtractErrorsClassified ==
    (lastEvent = "extractReject" /\ error # NULL)
    => error \in {PasswordProtected, CouldNotRead, Unexpected}

\* C9: every index handleExtract passes to copyPages is an integer i with
\* 0 <= i < the page count of the selected file's document, and the bound the
\* parser was given is that page count.
C9_CopiedIndicesInDocument ==
    \A i \in 1..Len(ops) :
        (ops[i].op = "handleExtract" /\ ops[i].step = "copyPages")
        => /\ ops[i].file = file
           /\ totalPages = ops[i].file.pages
           /\ \A k \in 1..Len(ops[i].pageIndices) :
                  \E n \in 0..(ops[i].file.pages - 1) : ops[i].pageIndices[k] = Index(n)

\* An extraction ends in this step: its last promise settles, or the parser
\* throws in an accepted call.
ExtractEnds ==
    \/ lastEvent' = "extractReject"
    \/ lastEvent' = "extractResolve" /\ Len(ops') < Len(ops)
    \/ lastEvent' = "handleExtract" /\ file # NULL /\ ~isProcessing /\ ops' = ops

\* C10: an output and an error are never set together; an accepted extraction
\* ends, once its promises settle, with isProcessing false and either the
\* output set and no error, or an error and no output; and a failed one leaves
\* file, totalPages and pageInput as they were.
C10_ExtractionEndsWithOneOutcome ==
    /\ [](~(HasOutput /\ error # NULL))
    /\ [][ExtractEnds => /\ ~isProcessing'
                         /\ Succeeded' \/ Failed'
                         /\ Failed' => UNCHANGED <<file, totalPages, pageInput>>]_vars
    /\ InFlight("handleExtract") ~> (~isProcessing /\ (Succeeded \/ Failed))

====
